---- MODULE Spec2Model ----
(***************************************************************************)
(* Budget ledger and month-end rollover engine of the financial companion  *)
(* backend (FastAPI + SQLAlchemy, src/backend).                            *)
(*                                                                         *)
(* The committed content of the relational store is the state.  A request  *)
(* handler runs in its own session; what it writes becomes part of the     *)
(* store at its db.commit().  A handler with a single commit is one        *)
(* action.  A handler that commits more than once (update_transaction,     *)
(* delete_transaction, update_category, delete_category) is one action per *)
(* commit: the request in flight is held in inflight, and between its      *)
(* commits the store shows the intermediate state to the requests of other *)
(* sessions, which may run there.  Money is modelled in whole units.       *)
(***************************************************************************)
EXTENDS Integers, FiniteSets, Sequences, TLC

\* ---------------------------------------------------------------- bounds
\* Months the clock and the month-end chain may move past StartKey.
MaxMonths == 2
\* Category and transaction ids the store may issue under Spec.
MaxCats == 2
MaxTxns == 2
\* Category and transaction ids the store may issue under SpecMonthEnd.
MaxCarried == 3
MaxEntries == 1
\* Goals created, and the largest saved amount followed, in the goals specification.
MaxGoals == 2
MaxSaved == 4
\* Shopping lists created in the shopping specification.
MaxLists == 1
\* Categories created in the allocation specification: two setups of six.
MaxAllocated == 12

\* ---------------------------------------------------------------- inputs
Users == {1, 2}
StartKey == <<2025, 11>>

\* "YYYY-MM" keys are modelled as <<year, month>>.
\* datetime.strptime(prior_month, "%Y-%m") + relativedelta(months=1), strftime
NextMonthKey(k) == IF k[2] = 12 THEN <<k[1] + 1, 1>> ELSE <<k[1], k[2] + 1>>

MonthIndex(k) == (k[1] - StartKey[1]) * 12 + (k[2] - StartKey[2])

RECURSIVE KeyAt(_)
KeyAt(i) == IF i = 0 THEN StartKey ELSE NextMonthKey(KeyAt(i - 1))

MonthKeys == {KeyAt(i) : i \in 0..MaxMonths}

\* ----------------------------------------------------------------- state
VARIABLES
    now,          \* datetime.now().strftime("%Y-%m")
    users,        \* users.is_setup_complete, by user id
    budgets,      \* rows of table budgets
    categories,   \* rows of table categories
    transactions, \* rows of table transactions
    reports,      \* rows of table monthly_reports
    goals,        \* rows of table goals
    lists,        \* rows of table shopping_lists
    nextId,       \* the id sequences of categories, transactions, goals and lists
    inflight,     \* the request that is between two of its commits
    resp,         \* the last response a handler returned
    wizard,       \* history: how far each user's close of each month has come
    sessions      \* the AsyncSession of each request that runs beside another

vars == <<now, users, budgets, categories, transactions, reports, goals, lists, nextId,
          inflight, resp, wizard, sessions>>

\* op: the handler; step: the commits it has made; user: the caller; a, b: the
\* ids its local variables hold; income: budget.income as the session loaded it.
Request(op, step, u, a, b, income) ==
    [op |-> op, step |-> step, user |-> u, a |-> a, b |-> b, income |-> income]

NoRequest == Request("none", 0, 0, 0, 0, 0)

NoMonth == <<0, 0>>

\* A response: the handler, the HTTP status, the caller, the budget month and
\* the category ids the request worked on.
Response(op, status, u, m, a, b) ==
    [op |-> op, status |-> status, user |-> u, month |-> m, a |-> a, b |-> b]

\* raise HTTPException(status_code=status), or an exception no handler catches
\* (500): the session is closed without a commit.
Failure(op, status) == Response(op, status, 0, NoMonth, 0, 0)

ZeroTotals == [planned |-> 0, actual |-> 0, difference |-> 0]

\* Requests served side by side, each with the session get_db opened for it.
MaxSessions == 2

Sessions == 1..MaxSessions

\* A session that holds nothing: no request, or one that has ended.
NoSession == [op |-> "none", step |-> 0]

\* ------------------------------------------------------------ aggregates
RECURSIVE SumAmount(_)
SumAmount(T) ==
    IF T = {} THEN 0
    ELSE LET t == CHOOSE x \in T : TRUE IN t.amount + SumAmount(T \ {t})

RECURSIVE SumPlanned(_)
SumPlanned(C) ==
    IF C = {} THEN 0
    ELSE LET c == CHOOSE x \in C : TRUE IN c.planned + SumPlanned(C \ {c})

RECURSIVE SumActual(_)
SumActual(C) ==
    IF C = {} THEN 0
    ELSE LET c == CHOOSE x \in C : TRUE IN c.actual + SumActual(C \ {c})

\* select(Category).where(user_id == u, budget_month == m)
CatsOf(C, u, m) == {c \in C : c.user_id = u /\ c.budget_month = m}

\* select(Budget).where(user_id == u, month == m)
BudgetsOf(B, u, m) == {b \in B : b.user_id = u /\ b.month = m}

\* .scalars().first() on the budgets of (u, m): the row with the lowest id
FirstBudget(B, u, m) ==
    CHOOSE b \in BudgetsOf(B, u, m) : \A o \in BudgetsOf(B, u, m) : b.id <= o.id

\* select(func.sum(Transaction.amount)).where(category_id == cid) or 0.0
calculate_actual_spending(T, cid) == SumAmount({t \in T : t.category_id = cid})

\* Variant: the cached actual is kept as it is.
RecalcActualsCached(C, T, u, m) == C

\* The categories of (u, m) with actual rewritten from the transaction log.
RecalcActuals(C, T, u, m) ==
    {IF c.user_id = u /\ c.budget_month = m
        THEN [c EXCEPT !.actual = calculate_actual_spending(T, c.id)]
        ELSE c : c \in C}

calculate_budget_totals(C, T, u, m) ==
    LET planned == SumPlanned(CatsOf(C, u, m))
        actual == SumActual(CatsOf(RecalcActuals(C, T, u, m), u, m))
    IN [planned |-> planned, actual |-> actual, difference |-> planned - actual]

\* ------------------------------------------------------------------ Init
Init ==
    /\ now = StartKey
    /\ users = [u \in Users |-> FALSE]
    /\ budgets = {}
    /\ categories = {}
    /\ transactions = {}
    /\ reports = {}
    /\ goals = {}
    /\ lists = {}
    /\ nextId = [cat |-> 1, txn |-> 1, goal |-> 1, list |-> 1]
    /\ inflight = NoRequest
    /\ resp = Failure("none", 0)
    /\ wizard = [u \in Users |-> [m \in MonthKeys |-> [stage |-> "Open", closed |-> FALSE]]]
    /\ sessions = [s \in Sessions |-> NoSession]

\* ------------------------------------------------------- store helpers
\* model_dump(exclude_unset=True): a field of a PATCH body is absent or carries
\* a value.
Unset == << >>

Given(v) == <<v>>

Optional(S) == {Unset} \cup {Given(v) : v \in S}

\* for key, value in update_data.items(): setattr(row, key, value)
Patched(x, old) == IF x = Unset THEN old ELSE x[1]

HasBudget(B, u, m) == BudgetsOf(B, u, m) # {}

NewBudgetId(B) == Cardinality(B) + 1

NewReportId(R) == Cardinality(R) + 1

\* Category(user_id, budget_month, name, type, planned, icon, color): actual
\* takes the column default 0.0.
NewCategory(id, u, m, spec) ==
    [id |-> id, user_id |-> u, budget_month |-> m, name |-> spec.name,
     type |-> spec.type, planned |-> spec.planned, actual |-> 0,
     icon |-> spec.icon, color |-> spec.color]

\* db.add_all(list); flush: the rows get consecutive ids in list order.
InsertCats(u, m, specs, firstId) ==
    {NewCategory(firstId + i - 1, u, m, specs[i]) : i \in 1..Len(specs)}

CatSpec(name, type, planned, icon, color) ==
    [name |-> name, type |-> type, planned |-> planned, icon |-> icon, color |-> color]

\* Writes totals_json of one budget row.
SetTotals(B, b, totals) == (B \ {b}) \cup {[b EXCEPT !.totals = totals]}

\* income * 0.50 * 0.4 and the like, in whole units.
Share(income, pct, sub) == (income * pct * sub) \div 10000

\* Variant: the Want half shares are 40% each.
get_default_categories_uneven(income) ==
    << CatSpec("Housing", "Need", Share(income, 50, 40), "home", "#0f9d58"),
       CatSpec("Groceries", "Need", Share(income, 50, 30), "shopping-bag", "#0f9d58"),
       CatSpec("Utilities", "Need", Share(income, 50, 30), "zap", "#0f9d58"),
       CatSpec("Entertainment", "Want", Share(income, 30, 40), "film", "#ED254E"),
       CatSpec("Dining Out", "Want", Share(income, 30, 40), "utensils", "#ED254E"),
       CatSpec("Goal Contribution", "Savings", Share(income, 20, 100), "piggy-bank", "#F5BB00") >>

\* Needs 50% (40/30/30), Wants 30% (50/50), Savings 20%.
get_default_categories(income) ==
    << CatSpec("Housing", "Need", Share(income, 50, 40), "home", "#0f9d58"),
       CatSpec("Groceries", "Need", Share(income, 50, 30), "shopping-bag", "#0f9d58"),
       CatSpec("Utilities", "Need", Share(income, 50, 30), "zap", "#0f9d58"),
       CatSpec("Entertainment", "Want", Share(income, 30, 50), "film", "#ED254E"),
       CatSpec("Dining Out", "Want", Share(income, 30, 50), "utensils", "#ED254E"),
       CatSpec("Goal Contribution", "Savings", Share(income, 20, 100), "piggy-bank", "#F5BB00") >>

\* Step 2 of initial_budget_setup: the categories the request creates.
SetupCategories(method, income, initial) ==
    IF method = "50/30/20" THEN get_default_categories(income)
    ELSE IF Len(initial) > 0 THEN initial
    ELSE << CatSpec("Unallocated", "Need", income, "dollar-sign", "#999999") >>

RECURSIVE SumSpecs(_)
SumSpecs(specs) ==
    IF Len(specs) = 0 THEN 0 ELSE Head(specs).planned + SumSpecs(Tail(specs))

\* What the create and setup requests of the model may carry.
Holiday == CatSpec("Holiday", "Savings", 1, "dollar-sign", "#333333")

Treat == CatSpec("Treat", "Want", 1, "dollar-sign", "#333333")

\* A category with nothing planned.
Sundry == CatSpec("Sundry", "Want", 0, "dollar-sign", "#333333")

\* -------------------------------------------------------- BudgetLedger
\* Variant: only the budget of the current month is looked at.
SetupConflictThisMonth(B, U, u, m) == HasBudget(B, u, m)

\* initial_budget_setup, step 1: existing_budget or current_user.is_setup_complete
SetupConflict(B, U, u, m) == HasBudget(B, u, m) \/ U[u]

\* POST /budget/setup
initial_budget_setup(u, income, balance, method, initial) ==
    /\ IF SetupConflict(budgets, users, u, now)
       THEN /\ resp' = Response("setup", 409, 0, now, 0, 0)
            /\ UNCHANGED <<users, budgets, categories, nextId>>
       ELSE LET specs == SetupCategories(method, income, initial)
                cats == categories \cup InsertCats(u, now, specs, nextId.cat)
                free == income - SumSpecs(specs)
                totals == calculate_budget_totals(cats, transactions, u, now)
            IN /\ categories' = RecalcActuals(cats, transactions, u, now)
               /\ nextId' = [nextId EXCEPT !.cat = @ + Len(specs)]
               /\ budgets' = budgets \cup
                    {[id |-> NewBudgetId(budgets), user_id |-> u, month |-> now,
                      income |-> income, starting_balance |-> balance,
                      free_to_spend |-> free, totals |-> totals]}
               /\ users' = [users EXCEPT ![u] = TRUE]
               /\ resp' = Response("setup", 201, u, now, 0, 0)
    /\ UNCHANGED <<now, transactions, reports, inflight, goals, lists>>

\* PATCH /budget/update
update_budget_details(u, income, balance) ==
    /\ IF ~HasBudget(budgets, u, now)
       THEN /\ resp' = Failure("update_budget", 404)
            /\ UNCHANGED <<budgets, categories>>
       ELSE LET b == FirstBudget(budgets, u, now)
                inc == Patched(income, b.income)
                bal == Patched(balance, b.starting_balance)
                planned == SumPlanned(CatsOf(categories, u, now))
            IN /\ budgets' = (budgets \ {b}) \cup
                    {[b EXCEPT !.income = inc, !.starting_balance = bal,
                               !.free_to_spend = inc - planned,
                               !.totals = calculate_budget_totals(categories, transactions, u, now)]}
               /\ categories' = RecalcActuals(categories, transactions, u, now)
               /\ resp' = Response("update_budget", 200, u, now, 0, 0)
    /\ UNCHANGED <<now, users, transactions, reports, nextId, inflight, goals, lists>>

\* POST /budget/category
create_category(u, spec) ==
    /\ IF ~HasBudget(budgets, u, now)
       THEN /\ resp' = Failure("create_category", 400)
            /\ UNCHANGED <<budgets, categories, nextId>>
       ELSE LET b == FirstBudget(budgets, u, now)
                cats == categories \cup {NewCategory(nextId.cat, u, now, spec)}
            IN /\ categories' = RecalcActuals(cats, transactions, u, now)
               /\ nextId' = [nextId EXCEPT !.cat = @ + 1]
               /\ budgets' = (budgets \ {b}) \cup
                    {[b EXCEPT !.free_to_spend = b.income - SumPlanned(CatsOf(cats, u, now)),
                               !.totals = calculate_budget_totals(cats, transactions, u, now)]}
               /\ resp' = Response("create_category", 201, u, now, nextId.cat, 0)
    /\ UNCHANGED <<now, users, transactions, reports, inflight, goals, lists>>

\* PATCH /budget/category/update/{id}: up to the commit of the category update.
\* update_data carries planned and type, each of them or neither.
update_category(u, cid, planned, type) ==
    /\ inflight = NoRequest
    /\ LET found == {c \in categories : c.id = cid /\ c.user_id = u}
       IN IF found = {}
          THEN /\ resp' = Failure("update_category", 404)
               /\ UNCHANGED <<categories, inflight>>
          ELSE IF planned = Unset /\ type = Unset
          THEN /\ resp' = Response("update_category", 200, u, NoMonth, cid, 0)
               /\ UNCHANGED <<categories, inflight>>
          ELSE LET c == CHOOSE x \in found : TRUE
                   upd == [c EXCEPT !.planned = Patched(planned, @),
                                    !.type = Patched(type, @)]
               IN /\ categories' = (categories \ {c}) \cup {upd}
                  /\ IF planned = Unset
                     THEN /\ resp' = Response("update_category", 200, u, NoMonth, cid, 0)
                          /\ UNCHANGED inflight
                     ELSE /\ inflight' = Request("update_category", 1, u, cid, 0, 0)
                          /\ UNCHANGED resp
    /\ UNCHANGED <<now, users, budgets, transactions, reports, nextId, goals, lists>>

\* update_category, step 4: the budget's free_to_spend and totals, committed
\* after the category update.
update_category_recalc ==
    /\ inflight.op = "update_category"
    /\ LET u == inflight.user
           c == CHOOSE x \in categories : x.id = inflight.a
           m == c.budget_month
       IN /\ IF HasBudget(budgets, u, m)
             THEN LET b == FirstBudget(budgets, u, m)
                  IN /\ budgets' = (budgets \ {b}) \cup
                          {[b EXCEPT !.free_to_spend = b.income - SumPlanned(CatsOf(categories, u, m)),
                                     !.totals = calculate_budget_totals(categories, transactions, u, m)]}
                     /\ categories' = RecalcActuals(categories, transactions, u, m)
             ELSE UNCHANGED <<budgets, categories>>
          /\ resp' = Response("update_category", 200, u, m, inflight.a, 0)
    /\ inflight' = NoRequest
    /\ UNCHANGED <<now, users, transactions, reports, nextId, goals, lists>>

\* Variant: transactions.category_id without the foreign key.
CategoryNeverReferenced(T, cid) == FALSE

\* The foreign key transactions.category_id -> categories.id.
CategoryReferenced(T, cid) == \E t \in T : t.category_id = cid

\* The foreign key shopping_lists.category_id -> categories.id.
ListReferenced(L, cid) == \E l \in L : l.category_id = cid

\* DELETE /budget/category/{id}: up to the commit of the deletion.
delete_category(u, cid) ==
    /\ inflight = NoRequest
    /\ LET found == {c \in categories : c.id = cid /\ c.user_id = u}
       IN IF found = {}
          THEN /\ resp' = Failure("delete_category", 404)
               /\ UNCHANGED <<categories, inflight>>
          ELSE IF calculate_actual_spending(transactions, cid) > 0
          THEN /\ resp' = Failure("delete_category", 400)
               /\ UNCHANGED <<categories, inflight>>
          ELSE IF CategoryReferenced(transactions, cid) \/ ListReferenced(lists, cid)
          THEN /\ resp' = Failure("delete_category", 500)
               /\ UNCHANGED <<categories, inflight>>
          ELSE LET c == CHOOSE x \in found : TRUE
               IN IF HasBudget(budgets, u, c.budget_month)
                  THEN LET b == FirstBudget(budgets, u, c.budget_month)
                       IN /\ categories' = categories \ {c}
                          /\ inflight' = Request("delete_category", 1, u, cid, b.id, b.income)
                          /\ UNCHANGED resp
                  ELSE \* the handler returns without a commit
                       /\ resp' = Response("delete_category", 204, u, NoMonth, cid, 0)
                       /\ UNCHANGED <<categories, inflight>>
    /\ UNCHANGED <<now, users, budgets, transactions, reports, nextId, goals, lists>>

\* delete_category, step 4 after "Commit deletion first": the budget row the
\* session holds gets free_to_spend and totals.
delete_category_recalc ==
    /\ inflight.op = "delete_category"
    /\ LET u == inflight.user
           b == CHOOSE x \in budgets : x.id = inflight.b
           m == b.month
       IN /\ budgets' = (budgets \ {b}) \cup
                {[b EXCEPT !.free_to_spend = inflight.income - SumPlanned(CatsOf(categories, u, m)),
                           !.totals = calculate_budget_totals(categories, transactions, u, m)]}
          /\ categories' = RecalcActuals(categories, transactions, u, m)
          /\ resp' = Response("delete_category", 204, u, m, inflight.a, 0)
    /\ inflight' = NoRequest
    /\ UNCHANGED <<now, users, transactions, reports, nextId, goals, lists>>

\* ----------------------------------------------------- TransactionLedger
\* Variant: the sum is computed and not stored.
update_category_actual_unwritten(C, T, cid) == C

\* update_category_actual, step 2: the category's cached actual.
update_category_actual_cats(C, T, cid) ==
    {IF c.id = cid THEN [c EXCEPT !.actual = calculate_actual_spending(T, cid)] ELSE c : c \in C}

RECURSIVE SumSpending(_, _)
SumSpending(C, T) ==
    IF C = {} THEN 0
    ELSE LET c == CHOOSE x \in C : TRUE
         IN calculate_actual_spending(T, c.id) + SumSpending(C \ {c}, T)

\* Variant: the totals add up the cached actual of the categories.
update_category_actual_from_cache(B, C, T, cid) ==
    IF \A c \in C : c.id # cid THEN B
    ELSE LET c == CHOOSE x \in C : x.id = cid
             u == c.user_id
             m == c.budget_month
         IN IF ~HasBudget(B, u, m) THEN B
            ELSE LET planned == SumPlanned(CatsOf(C, u, m))
                     actual == SumActual(CatsOf(C, u, m))
                 IN SetTotals(B, FirstBudget(B, u, m),
                        [planned |-> planned, actual |-> actual, difference |-> planned - actual])

\* update_category_actual, step 3: the totals of the budget of the category's month.
update_category_actual_budgets(B, C, T, cid) ==
    IF \A c \in C : c.id # cid THEN B
    ELSE LET c == CHOOSE x \in C : x.id = cid
             u == c.user_id
             m == c.budget_month
         IN IF ~HasBudget(B, u, m) THEN B
            ELSE LET planned == SumPlanned(CatsOf(C, u, m))
                     actual == SumSpending(CatsOf(C, u, m), T)
                 IN SetTotals(B, FirstBudget(B, u, m),
                        [planned |-> planned, actual |-> actual, difference |-> planned - actual])

\* A create that does not look for the budget of the transaction's month.
create_transaction_unchecked(u, cid, amount, date) ==
    /\ IF \A c \in categories : ~(c.id = cid /\ c.user_id = u)
       THEN /\ resp' = Failure("create_transaction", 404)
            /\ UNCHANGED <<budgets, categories, transactions, nextId>>
       ELSE LET t == [id |-> nextId.txn, user_id |-> u, budget_month |-> date,
                      category_id |-> cid, amount |-> amount, date |-> date]
                T == transactions \cup {t}
            IN /\ transactions' = T
               /\ nextId' = [nextId EXCEPT !.txn = @ + 1]
               /\ categories' = update_category_actual_cats(categories, T, cid)
               /\ budgets' = update_category_actual_budgets(budgets, categories, T, cid)
               /\ resp' = Response("create_transaction", 201, u, NoMonth, cid, 0)
    /\ UNCHANGED <<now, users, reports, inflight, goals, lists>>

\* POST /transactions
create_transaction(u, cid, amount, date) ==
    /\ IF \A c \in categories : ~(c.id = cid /\ c.user_id = u)
       THEN /\ resp' = Failure("create_transaction", 404)
            /\ UNCHANGED <<budgets, categories, transactions, nextId>>
       ELSE IF ~HasBudget(budgets, u, date)
       THEN /\ resp' = Failure("create_transaction", 400)
            /\ UNCHANGED <<budgets, categories, transactions, nextId>>
       ELSE LET t == [id |-> nextId.txn, user_id |-> u, budget_month |-> date,
                      category_id |-> cid, amount |-> amount, date |-> date]
                T == transactions \cup {t}
            IN /\ transactions' = T
               /\ nextId' = [nextId EXCEPT !.txn = @ + 1]
               /\ categories' = update_category_actual_cats(categories, T, cid)
               /\ budgets' = update_category_actual_budgets(budgets, categories, T, cid)
               /\ resp' = Response("create_transaction", 201, u, NoMonth, cid, 0)
    /\ UNCHANGED <<now, users, reports, inflight, goals, lists>>

\* PATCH /transactions/{id}: up to "3. Commit update".  update_data carries
\* amount, category_id and date, each of them or none.
update_transaction(u, tid, amount, cid, date) ==
    /\ inflight = NoRequest
    /\ LET found == {t \in transactions : t.id = tid /\ t.user_id = u}
       IN IF found = {}
          THEN /\ resp' = Failure("update_transaction", 404)
               /\ UNCHANGED <<transactions, inflight>>
          ELSE LET t == CHOOSE x \in found : TRUE
                   old_category_id == t.category_id
               IN IF amount = Unset /\ cid = Unset /\ date = Unset
                  THEN /\ resp' = Response("update_transaction", 200, u, NoMonth, 0, 0)
                       /\ UNCHANGED <<transactions, inflight>>
                  ELSE IF /\ cid # Unset
                          /\ cid[1] # old_category_id
                          /\ \A c \in categories : ~(c.id = cid[1] /\ c.user_id = u)
                  THEN /\ resp' = Failure("update_transaction", 400)
                       /\ UNCHANGED <<transactions, inflight>>
                  ELSE LET upd == [t EXCEPT !.amount = Patched(amount, @),
                                            !.category_id = Patched(cid, @),
                                            !.date = Patched(date, @)]
                       IN /\ transactions' = (transactions \ {t}) \cup {upd}
                          /\ inflight' = Request("update_transaction", 1, u,
                                                 upd.category_id, old_category_id, 0)
                          /\ UNCHANGED resp
    /\ UNCHANGED <<now, users, budgets, categories, reports, nextId, goals, lists>>

\* Variant: only the category the transaction has now is recalculated.
update_transaction_recalc_new_only ==
    /\ inflight.op = "update_transaction"
    /\ inflight.step = 1
    /\ categories' = update_category_actual_cats(categories, transactions, inflight.a)
    /\ budgets' = update_category_actual_budgets(budgets, categories, transactions, inflight.a)
    /\ inflight' = NoRequest
    /\ resp' = Response("update_transaction", 200, inflight.user, NoMonth, inflight.a, inflight.b)
    /\ UNCHANGED <<now, users, transactions, reports, nextId, goals, lists>>

\* update_transaction, step 4: update_category_actual(transaction.category_id)
update_transaction_recalc_new ==
    /\ inflight.op = "update_transaction"
    /\ inflight.step = 1
    /\ categories' = update_category_actual_cats(categories, transactions, inflight.a)
    /\ budgets' = update_category_actual_budgets(budgets, categories, transactions, inflight.a)
    /\ IF inflight.a # inflight.b
       THEN /\ inflight' = [inflight EXCEPT !.step = 2]
            /\ UNCHANGED resp
       ELSE /\ inflight' = NoRequest
            /\ resp' = Response("update_transaction", 200, inflight.user, NoMonth, inflight.a, inflight.b)
    /\ UNCHANGED <<now, users, transactions, reports, nextId, goals, lists>>

\* update_transaction, step 4: update_category_actual(old_category_id)
update_transaction_recalc_old ==
    /\ inflight.op = "update_transaction"
    /\ inflight.step = 2
    /\ categories' = update_category_actual_cats(categories, transactions, inflight.b)
    /\ budgets' = update_category_actual_budgets(budgets, categories, transactions, inflight.b)
    /\ inflight' = NoRequest
    /\ resp' = Response("update_transaction", 200, inflight.user, NoMonth, inflight.a, inflight.b)
    /\ UNCHANGED <<now, users, transactions, reports, nextId, goals, lists>>

\* DELETE /transactions/{id}: up to the commit of the deletion.
delete_transaction(u, tid) ==
    /\ inflight = NoRequest
    /\ LET found == {t \in transactions : t.id = tid /\ t.user_id = u}
       IN IF found = {}
          THEN /\ resp' = Failure("delete_transaction", 404)
               /\ UNCHANGED <<transactions, inflight>>
          ELSE LET t == CHOOSE x \in found : TRUE
               IN /\ transactions' = transactions \ {t}
                  /\ inflight' = Request("delete_transaction", 1, u, t.category_id, 0, 0)
                  /\ UNCHANGED resp
    /\ UNCHANGED <<now, users, budgets, categories, reports, nextId, goals, lists>>

\* delete_transaction, step 3: update_category_actual(category_id_to_update)
delete_transaction_recalc ==
    /\ inflight.op = "delete_transaction"
    /\ categories' = update_category_actual_cats(categories, transactions, inflight.a)
    /\ budgets' = update_category_actual_budgets(budgets, categories, transactions, inflight.a)
    /\ inflight' = NoRequest
    /\ resp' = Response("delete_transaction", 204, inflight.user, NoMonth, inflight.a, 0)
    /\ UNCHANGED <<now, users, transactions, reports, nextId, goals, lists>>

\* ---------------------------------------------------------- shopping lists
\* POST /shopping: total_cost is the sum of estimated_price * quantity of the items.
create_shopping_list(u, cid, total_cost) ==
    /\ IF \A c \in categories : ~(c.id = cid /\ c.user_id = u)
       THEN /\ resp' = Failure("create_shopping_list", 400)
            /\ UNCHANGED <<lists, nextId>>
       ELSE /\ lists' = lists \cup {[id |-> nextId.list, user_id |-> u, category_id |-> cid,
                                     total_cost |-> total_cost]}
            /\ nextId' = [nextId EXCEPT !.list = @ + 1]
            /\ resp' = Response("create_shopping_list", 201, u, NoMonth, cid, 0)
    /\ UNCHANGED <<now, users, budgets, categories, transactions, reports, goals, inflight>>

\* POST /shopping/{id}/checkout: the transaction is added without a look at
\* the budgets; update_category_actual commits it together with the deletion
\* of the list.
checkout_shopping_list(u, lid, actual_total_cost, transaction_date) ==
    /\ LET found == {l \in lists : l.id = lid /\ l.user_id = u}
       IN IF found = {}
          THEN /\ resp' = Failure("checkout", 404)
               /\ UNCHANGED <<budgets, categories, transactions, lists, nextId>>
          ELSE LET l == CHOOSE x \in found : TRUE
                   date == Patched(transaction_date, now)
                   t == [id |-> nextId.txn, user_id |-> u, budget_month |-> date,
                         category_id |-> l.category_id,
                         amount |-> Patched(actual_total_cost, l.total_cost), date |-> date]
                   T == transactions \cup {t}
               IN /\ transactions' = T
                  /\ nextId' = [nextId EXCEPT !.txn = @ + 1]
                  /\ lists' = lists \ {l}
                  /\ categories' = update_category_actual_cats(categories, T, l.category_id)
                  /\ budgets' = update_category_actual_budgets(budgets, categories, T,
                                                                l.category_id)
                  /\ resp' = Response("checkout", 201, u, date, l.category_id, 0)
    /\ UNCHANGED <<now, users, reports, goals, inflight>>

\* ------------------------------------------------------------ GoalTracker
\* POST /goals: saved_amount starts at 0.
create_goal(u) ==
    /\ goals' = goals \cup {[id |-> nextId.goal, user_id |-> u, saved_amount |-> 0]}
    /\ nextId' = [nextId EXCEPT !.goal = @ + 1]
    /\ resp' = Response("create_goal", 201, u, NoMonth, nextId.goal, 0)
    /\ UNCHANGED <<now, users, budgets, categories, transactions, reports, lists, inflight>>

\* A contribution that commits the goal's new saved_amount alone.
contribute_to_goal_only(u, goal_id, amount) ==
    /\ LET found == {g \in goals : g.id = goal_id /\ g.user_id = u}
       IN IF found = {} \/ ~HasBudget(budgets, u, now)
          THEN /\ resp' = Failure("contribute", 404)
               /\ UNCHANGED goals
          ELSE LET goal == CHOOSE g \in found : TRUE
               IN /\ goals' = (goals \ {goal}) \cup
                        {[goal EXCEPT !.saved_amount = @ + amount]}
                  /\ resp' = Response("contribute", 200, u, now, goal_id, 0)
    /\ UNCHANGED <<now, users, budgets, categories, transactions, reports, lists, nextId,
                   inflight>>

\* POST /goals/{goal_id}/contribute
contribute_to_goal(u, goal_id, amount) ==
    /\ LET found == {g \in goals : g.id = goal_id /\ g.user_id = u}
       IN IF found = {}
          THEN /\ resp' = Failure("contribute", 404)
               /\ UNCHANGED <<budgets, goals>>
          ELSE IF ~HasBudget(budgets, u, now)
          THEN /\ resp' = Failure("contribute", 400)
               /\ UNCHANGED <<budgets, goals>>
          ELSE LET goal == CHOOSE g \in found : TRUE
                   budget == FirstBudget(budgets, u, now)
               IN /\ goals' = (goals \ {goal}) \cup
                        {[goal EXCEPT !.saved_amount = @ + amount]}
                  /\ budgets' = (budgets \ {budget}) \cup
                        {[budget EXCEPT !.free_to_spend = @ - amount]}
                  /\ resp' = Response("contribute", 200, u, now, goal_id, 0)
    /\ UNCHANGED <<now, users, categories, transactions, reports, lists, nextId, inflight>>

\* Variant: the goal is looked up by its id alone.
delete_goal_of_anyone(u, goal_id) ==
    /\ LET found == {g \in goals : g.id = goal_id}
       IN IF found = {}
          THEN /\ resp' = Failure("delete_goal", 404)
               /\ UNCHANGED goals
          ELSE /\ goals' = goals \ found
               /\ resp' = Response("delete_goal", 204, u, NoMonth, goal_id, 0)
    /\ UNCHANGED <<now, users, budgets, categories, transactions, reports, lists, nextId,
                   inflight>>

\* DELETE /goals/{goal_id}
delete_goal(u, goal_id) ==
    /\ LET found == {g \in goals : g.id = goal_id /\ g.user_id = u}
       IN IF found = {}
          THEN /\ resp' = Failure("delete_goal", 404)
               /\ UNCHANGED goals
          ELSE /\ goals' = goals \ found
               /\ resp' = Response("delete_goal", 204, u, NoMonth, goal_id, 0)
    /\ UNCHANGED <<now, users, budgets, categories, transactions, reports, lists, nextId,
                   inflight>>

\* --------------------------------------------------------- MonthEndEngine
\* The rows of a select in id order.
RECURSIVE SeqById(_)
SeqById(S) ==
    IF S = {} THEN << >>
    ELSE LET c == CHOOSE x \in S : \A y \in S : x.id <= y.id
         IN <<c>> \o SeqById(S \ {c})

\* CategorySummary(name, type, planned, actual, variance)
CategorySummary(c) ==
    [name |-> c.name, type |-> c.type, planned |-> c.planned, actual |-> c.actual,
     variance |-> c.planned - c.actual]

\* Variant: monthly_reports.month without the unique index.
ReportMonthNotUnique(R, m) == FALSE

\* monthly_reports.month is declared unique=True: a second row with the same
\* month, of whatever user, fails the commit with an IntegrityError.
ReportMonthTaken(R, m) == \E r \in R : r.month = m

\* total_actual_expenses of month_end_summary: actual of the categories of
\* (u, m) in C that are not of type Savings.
total_actual_expenses(C, u, m) ==
    SumActual({c \in CatsOf(C, u, m) : c.type # "Savings"})

\* Variant: the summary reads the categories' cached actual.
month_end_summary_cached(u) ==
    /\ resp' = IF HasBudget(budgets, u, now)
                THEN Response("summary", 200, u, now, SumActual(CatsOf(categories, u, now)),
                              total_actual_expenses(categories, u, now))
                ELSE Failure("summary", 404)
    /\ UNCHANGED <<now, users, budgets, categories, transactions, reports, nextId, inflight, goals, lists>>

\* GET /monthend/wizard/summary: nothing is committed.  The response carries
\* total_actual and total_expenses, read from the categories of the session
\* after calculate_budget_totals has rewritten their actual.
month_end_summary(u) ==
    /\ resp' = IF HasBudget(budgets, u, now)
                THEN LET cats == RecalcActuals(categories, transactions, u, now)
                     IN Response("summary", 200, u, now,
                                 calculate_budget_totals(categories, transactions, u, now).actual,
                                 total_actual_expenses(cats, u, now))
                ELSE Failure("summary", 404)
    /\ UNCHANGED <<now, users, budgets, categories, transactions, reports, nextId, inflight, goals, lists>>

\* POST /monthend/wizard/sweep.  With a goal_id the handler calls
\* get_validated_goal, a name routers/monthend.py never imports.
month_end_sweep(u, goal_id, sweep_amount) ==
    /\ resp' = IF ~HasBudget(budgets, u, now) THEN Failure("sweep", 404)
                ELSE IF goal_id # Unset THEN Failure("sweep", 500)
                ELSE Response("sweep", 200, u, now, 0, 0)
    /\ UNCHANGED <<now, users, budgets, categories, transactions, reports, nextId, inflight, goals, lists>>

\* The MonthlyReport row of step 2, from the recalculated prior categories.
NewReport(R, u, prior_month, prior_budget, prior_categories) ==
    LET total_saved == SumActual({c \in prior_categories : c.type = "Savings"})
        total_expenses == SumActual({c \in prior_categories : c.type # "Savings"})
    IN [id |-> NewReportId(R), user_id |-> u, month |-> prior_month,
        total_income |-> prior_budget.income,
        total_expenses |-> total_expenses,
        total_saved |-> total_saved,
        net_surplus |-> prior_budget.income - total_expenses - total_saved,
        breakdown |-> [i \in 1..Cardinality(prior_categories) |->
                          CategorySummary(SeqById(prior_categories)[i])]]

\* The Budget row of step 3.
NewBudget(B, u, next_month, prior_budget) ==
    LET new_starting_balance == prior_budget.starting_balance + prior_budget.free_to_spend
    IN [id |-> NewBudgetId(B), user_id |-> u, month |-> next_month,
        income |-> prior_budget.income,
        starting_balance |-> new_starting_balance,
        free_to_spend |-> new_starting_balance,
        totals |-> ZeroTotals]

\* The Category rows of step 4.
CarryCategories(prior_categories, u, next_month, firstId) ==
    LET prior == SeqById(prior_categories)
    IN InsertCats(u, next_month,
                  [i \in 1..Len(prior) |->
                      CatSpec(prior[i].name, prior[i].type, prior[i].planned,
                              prior[i].icon, prior[i].color)],
                  firstId)

\* Variant: a month without budget is closed with an empty report.
month_end_start_new_month_unguarded(u, prior_month) ==
    /\ reports' = reports \cup
          {[id |-> NewReportId(reports), user_id |-> u, month |-> prior_month,
            total_income |-> 0, total_expenses |-> 0, total_saved |-> 0,
            net_surplus |-> 0, breakdown |-> << >>]}
    /\ resp' = Response("finalize", 200, u, prior_month, 0, 0)
    /\ UNCHANGED <<now, users, budgets, categories, transactions, nextId, inflight, goals,
                   lists>>

\* POST /monthend/wizard/start-new-month
month_end_start_new_month(u, prior_month) ==
    /\ IF ~HasBudget(budgets, u, prior_month)
       THEN /\ resp' = Failure("finalize", 404)
            /\ UNCHANGED <<budgets, categories, reports, nextId>>
       ELSE IF ReportMonthTaken(reports, prior_month)
       THEN /\ resp' = Failure("finalize", 500)
            /\ UNCHANGED <<budgets, categories, reports, nextId>>
       ELSE LET prior_budget == FirstBudget(budgets, u, prior_month)
                recalculated == RecalcActuals(categories, transactions, u, prior_month)
                prior_categories == CatsOf(recalculated, u, prior_month)
                next_month == NextMonthKey(prior_month)
                n == Cardinality(prior_categories)
            IN /\ reports' = reports \cup
                    {NewReport(reports, u, prior_month, prior_budget, prior_categories)}
               /\ budgets' = budgets \cup {NewBudget(budgets, u, next_month, prior_budget)}
               /\ categories' = recalculated \cup
                    CarryCategories(prior_categories, u, next_month, nextId.cat)
               /\ nextId' = [nextId EXCEPT !.cat = @ + n]
               /\ resp' = Response("finalize", 200, u, prior_month, 0, 0)
    /\ UNCHANGED <<now, users, transactions, inflight, goals, lists>>

\* ------------------------------------------------------------------ Next
\* The calendar moves to the next month.
Tick ==
    /\ now' = NextMonthKey(now)
    /\ UNCHANGED <<users, budgets, categories, transactions, reports, nextId, inflight, resp, goals, lists>>

\* The steps of the close ritual, with the history of who performed what for
\* which month: Summarize moves an Open month to Summarized, Sweep moves a
\* Summarized month to Swept, Finalize closes the month at the stage it has.
Summarize(u) ==
    /\ month_end_summary(u)
    /\ wizard' = IF resp'.status = 200 /\ ~wizard[u][now].closed /\ wizard[u][now].stage = "Open"
                  THEN [wizard EXCEPT ![u][now].stage = "Summarized"]
                  ELSE wizard
    /\ UNCHANGED sessions

Sweep(u, goal_id, sweep_amount) ==
    /\ month_end_sweep(u, goal_id, sweep_amount)
    /\ wizard' = IF resp'.status = 200 /\ ~wizard[u][now].closed
                     /\ wizard[u][now].stage = "Summarized"
                  THEN [wizard EXCEPT ![u][now].stage = "Swept"]
                  ELSE wizard
    /\ UNCHANGED sessions

Finalize(u, prior_month) ==
    /\ month_end_start_new_month(u, prior_month)
    /\ wizard' = IF resp'.status = 200
                  THEN [wizard EXCEPT ![u][prior_month].closed = TRUE]
                  ELSE wizard
    /\ UNCHANGED sessions

\* -------------------------------------------------- concurrent sessions
\* PostgreSQL's default isolation, READ COMMITTED: a statement of a session
\* sees the committed rows and the rows the session has flushed itself; an
\* UPDATE of a row waits while another session holds an uncommitted UPDATE of
\* that row and then overwrites the columns it sets.
\*
\* POST /transactions in session s, statement by statement.  The amounts are
\* positive, so each recalculated value differs from the loaded one and the
\* unit of work emits its UPDATE.
\*
\* Steps 1 to 4 of create_transaction: the checks, db.add and db.flush.  The
\* INSERT is not committed; the id comes from the sequence.
create_transaction_flush(s, u, cid, amount, date) ==
    /\ sessions[s].op = "none"
    /\ IF \A c \in categories : ~(c.id = cid /\ c.user_id = u)
       THEN /\ resp' = Failure("create_transaction", 404)
            /\ UNCHANGED <<nextId, sessions>>
       ELSE IF ~HasBudget(budgets, u, date)
       THEN /\ resp' = Failure("create_transaction", 400)
            /\ UNCHANGED <<nextId, sessions>>
       ELSE LET t == [id |-> nextId.txn, user_id |-> u, budget_month |-> date,
                      category_id |-> cid, amount |-> amount, date |-> date]
            IN /\ nextId' = [nextId EXCEPT !.txn = @ + 1]
               /\ sessions' = [sessions EXCEPT ![s] =
                      [op |-> "create_transaction", step |-> 1, user |-> u, row |-> t,
                       new_actual |-> 0, budget_id |-> 0, new_totals |-> ZeroTotals]]
               /\ UNCHANGED resp
    /\ UNCHANGED <<now, users, budgets, categories, transactions, reports, goals, lists,
                   inflight>>

\* The transactions a statement of session s reads.
VisibleTransactions(s) == transactions \cup {sessions[s].row}

\* update_category_actual, 1: the SELECT sum(amount) of the category.
update_category_actual_sum(s) ==
    /\ sessions[s].op = "create_transaction"
    /\ sessions[s].step = 1
    /\ sessions' = [sessions EXCEPT ![s].step = 2,
                       ![s].new_actual = calculate_actual_spending(VisibleTransactions(s),
                                             sessions[s].row.category_id)]
    /\ UNCHANGED <<now, users, budgets, categories, transactions, reports, goals, lists,
                   nextId, inflight, resp>>

\* Session o holds an uncommitted UPDATE of category cid.
CategoryLocked(o, cid) ==
    /\ sessions[o].op = "create_transaction"
    /\ sessions[o].step >= 3
    /\ sessions[o].row.category_id = cid

\* update_category_actual, 2: category.actual = new_actual, flushed as an
\* UPDATE by the autoflush of the SELECT of the budget, which finds the budget
\* of the category's month.  Without the category the function returns before
\* its commit and the session is closed: the INSERT is rolled back.
update_category_actual_write(s) ==
    /\ sessions[s].op = "create_transaction"
    /\ sessions[s].step = 2
    /\ LET cid == sessions[s].row.category_id
           found == {c \in categories : c.id = cid}
       IN IF found = {}
          THEN /\ sessions' = [sessions EXCEPT ![s] = NoSession]
               /\ resp' = Response("create_transaction", 201, sessions[s].user, NoMonth, cid, 0)
          ELSE /\ \A o \in Sessions \ {s} : ~CategoryLocked(o, cid)
               /\ LET c == CHOOSE x \in found : TRUE
                      u == c.user_id
                      m == c.budget_month
                  IN sessions' = [sessions EXCEPT ![s].step = 3,
                         ![s].budget_id = IF HasBudget(budgets, u, m)
                                             THEN FirstBudget(budgets, u, m).id ELSE 0]
               /\ UNCHANGED resp
    /\ UNCHANGED <<now, users, budgets, categories, transactions, reports, goals, lists,
                   nextId, inflight>>

\* update_category_actual, 3: the categories of the month and the SELECT
\* sum(amount) of each of them.
update_category_actual_totals(s) ==
    /\ sessions[s].op = "create_transaction"
    /\ sessions[s].step = 3
    /\ LET c == CHOOSE x \in categories : x.id = sessions[s].row.category_id
           all_categories == CatsOf(categories, c.user_id, c.budget_month)
           planned == SumPlanned(all_categories)
           actual == SumSpending(all_categories, VisibleTransactions(s))
       IN sessions' = [sessions EXCEPT ![s].step = 4,
              ![s].new_totals = [planned |-> planned, actual |-> actual,
                                 difference |-> planned - actual]]
    /\ UNCHANGED <<now, users, budgets, categories, transactions, reports, goals, lists,
                   nextId, inflight, resp>>

\* update_category_actual, db.commit(): the UPDATE of budget.totals_json is
\* flushed and the INSERT and both UPDATEs become visible; the response
\* follows.
update_category_actual_commit(s) ==
    /\ sessions[s].op = "create_transaction"
    /\ sessions[s].step = 4
    /\ LET cid == sessions[s].row.category_id
       IN /\ transactions' = transactions \cup {sessions[s].row}
          /\ categories' = {IF c.id = cid THEN [c EXCEPT !.actual = sessions[s].new_actual]
                                          ELSE c : c \in categories}
          /\ budgets' = {IF b.id = sessions[s].budget_id
                            THEN [b EXCEPT !.totals = sessions[s].new_totals]
                            ELSE b : b \in budgets}
          /\ resp' = Response("create_transaction", 201, sessions[s].user, NoMonth, cid, 0)
    /\ sessions' = [sessions EXCEPT ![s] = NoSession]
    /\ UNCHANGED <<now, users, reports, goals, lists, nextId, inflight>>

\* POST /budget/setup in session s.  Step 1: get_current_user has loaded the
\* user and the handler has looked for the budget of the current month.
initial_budget_setup_check(s, u, income, balance, method, initial) ==
    /\ sessions[s].op = "none"
    /\ IF SetupConflict(budgets, users, u, now)
       THEN /\ resp' = Response("setup", 409, 0, now, 0, 0)
            /\ UNCHANGED sessions
       ELSE /\ sessions' = [sessions EXCEPT ![s] =
                   [op |-> "setup", step |-> 1, user |-> u, month |-> now,
                    income |-> income, starting_balance |-> balance,
                    specs |-> SetupCategories(method, income, initial),
                    rows |-> {}, totals |-> ZeroTotals]]
            /\ UNCHANGED resp
    /\ UNCHANGED <<now, users, budgets, categories, transactions, reports, goals, lists,
                   nextId, inflight>>

\* Steps 2 and 3: db.add_all(new_categories), db.flush() and
\* calculate_budget_totals over the categories of the month the session sees:
\* the committed ones and its own.  No transaction is recorded against a new
\* category, so every actual the function assigns is the 0 already loaded.
initial_budget_setup_flush(s) ==
    /\ sessions[s].op = "setup"
    /\ sessions[s].step = 1
    /\ LET u == sessions[s].user
           m == sessions[s].month
           rows == InsertCats(u, m, sessions[s].specs, nextId.cat)
       IN /\ nextId' = [nextId EXCEPT !.cat = @ + Len(sessions[s].specs)]
          /\ sessions' = [sessions EXCEPT ![s].step = 2, ![s].rows = rows,
                 ![s].totals = calculate_budget_totals(categories \cup rows, transactions, u, m)]
    /\ UNCHANGED <<now, users, budgets, categories, transactions, reports, goals, lists,
                   inflight, resp>>

\* Steps 4 and 5: the Budget row, is_setup_complete = True and db.commit().
\* Table budgets has no unique constraint on (user_id, month).
initial_budget_setup_commit(s) ==
    /\ sessions[s].op = "setup"
    /\ sessions[s].step = 2
    /\ LET u == sessions[s].user
           m == sessions[s].month
       IN /\ categories' = categories \cup sessions[s].rows
          /\ budgets' = budgets \cup
                {[id |-> NewBudgetId(budgets), user_id |-> u, month |-> m,
                  income |-> sessions[s].income,
                  starting_balance |-> sessions[s].starting_balance,
                  free_to_spend |-> sessions[s].income - SumSpecs(sessions[s].specs),
                  totals |-> sessions[s].totals]}
          /\ users' = [users EXCEPT ![u] = TRUE]
          /\ resp' = Response("setup", 201, u, m, 0, 0)
    /\ sessions' = [sessions EXCEPT ![s] = NoSession]
    /\ UNCHANGED <<now, transactions, reports, goals, lists, nextId, inflight>>

\* POST /goals/{goal_id}/contribute in session s.  get_validated_goal: the
\* session loads the goal with its saved_amount.
contribute_to_goal_load(s, u, goal_id, amount) ==
    /\ sessions[s].op = "none"
    /\ LET found == {g \in goals : g.id = goal_id /\ g.user_id = u}
       IN IF found = {}
          THEN /\ resp' = Failure("contribute", 404)
               /\ UNCHANGED sessions
          ELSE LET goal == CHOOSE g \in found : TRUE
               IN /\ sessions' = [sessions EXCEPT ![s] =
                         [op |-> "contribute", step |-> 1, user |-> u, goal_id |-> goal_id,
                          amount |-> amount, saved_amount |-> goal.saved_amount,
                          budget_id |-> 0, free_to_spend |-> 0]]
                  /\ UNCHANGED resp
    /\ UNCHANGED <<now, users, budgets, categories, transactions, reports, goals, lists,
                   nextId, inflight>>

\* Step 1: the session loads the budget of the current month with its
\* free_to_spend; without one the request ends with 400.
contribute_to_goal_budget(s) ==
    /\ sessions[s].op = "contribute"
    /\ sessions[s].step = 1
    /\ IF ~HasBudget(budgets, sessions[s].user, now)
       THEN /\ resp' = Failure("contribute", 400)
            /\ sessions' = [sessions EXCEPT ![s] = NoSession]
       ELSE LET budget == FirstBudget(budgets, sessions[s].user, now)
            IN /\ sessions' = [sessions EXCEPT ![s].step = 2, ![s].budget_id = budget.id,
                                  ![s].free_to_spend = budget.free_to_spend]
               /\ UNCHANGED resp
    /\ UNCHANGED <<now, users, budgets, categories, transactions, reports, goals, lists,
                   nextId, inflight>>

\* Steps 3 to 5: goal.saved_amount += amount and budget.free_to_spend -=
\* amount are computed in Python on the loaded attributes, and db.commit()
\* writes the two results as the new column values.
contribute_to_goal_commit(s) ==
    /\ sessions[s].op = "contribute"
    /\ sessions[s].step = 2
    /\ goals' = {IF g.id = sessions[s].goal_id
                    THEN [g EXCEPT !.saved_amount = sessions[s].saved_amount + sessions[s].amount]
                    ELSE g : g \in goals}
    /\ budgets' = {IF b.id = sessions[s].budget_id
                      THEN [b EXCEPT !.free_to_spend =
                                          sessions[s].free_to_spend - sessions[s].amount]
                      ELSE b : b \in budgets}
    /\ resp' = Response("contribute", 200, sessions[s].user, now, sessions[s].goal_id, 0)
    /\ sessions' = [sessions EXCEPT ![s] = NoSession]
    /\ UNCHANGED <<now, users, categories, transactions, reports, lists, nextId, inflight>>

\* The store stays within the ids and months of P.
Within(P) ==
    /\ nextId.cat <= P.maxcats + 1
    /\ nextId.txn <= P.maxtxns + 1
    /\ nextId.goal <= P.maxgoals + 1
    /\ nextId.list <= P.maxlists + 1
    /\ MonthIndex(now) <= MaxMonths
    /\ \A b \in budgets : MonthIndex(b.month) <= MaxMonths
    /\ \A g \in goals : g.saved_amount <= MaxSaved

\* A step of handler A that stays within P.
Step(P, A) == A /\ Within(P)' /\ UNCHANGED <<wizard, sessions>>

\* A step of a request in its own session, beside the other sessions.
Beside(P, A) == A /\ Within(P)' /\ UNCHANGED wizard

\* The requests of the callers P.users, with bodies drawn from the sets of P.
BudgetRequests(P) ==
    \/ \E u \in P.users, income \in P.incomes, balance \in P.balances, in \in P.setups :
          Step(P, initial_budget_setup(u, income, balance, in[1], in[2]))
    \/ \E u \in P.users, income \in Optional(P.incomes), balance \in Optional(P.balances) :
          Step(P, update_budget_details(u, income, balance))

CategoryRequests(P) ==
    \/ \E u \in P.users, spec \in P.categories : Step(P, create_category(u, spec))
    \/ \E u \in P.users, cid \in 1..P.maxcats, planned \in Optional(P.planned),
          type \in Optional(P.types) : Step(P, update_category(u, cid, planned, type))
    \/ Step(P, update_category_recalc)
    \/ \E u \in P.users, cid \in 1..P.maxcats : Step(P, delete_category(u, cid))
    \/ Step(P, delete_category_recalc)

TransactionRequests(P) ==
    \/ \E u \in P.users, cid \in 1..P.maxcats, amount \in P.amounts, date \in P.dates :
          Step(P, create_transaction(u, cid, amount, date))
    \/ \E u \in P.users, tid \in 1..P.maxtxns : Step(P, delete_transaction(u, tid))
    \/ Step(P, delete_transaction_recalc)

TransactionUpdates(P) ==
    \/ \E u \in P.users, tid \in 1..P.maxtxns, amount \in Optional(P.amounts),
          cid \in Optional(1..P.maxcats), date \in Optional(P.redates) :
          Step(P, update_transaction(u, tid, amount, cid, date))
    \/ Step(P, update_transaction_recalc_new)
    \/ Step(P, update_transaction_recalc_old)

MonthEnd(P) ==
    \/ Step(P, Tick)
    \/ \E u \in P.users : Step(P, month_end_summary(u))
    \/ \E u \in P.users, goal_id \in Optional(P.goalids), sweep_amount \in P.sweeps :
          Step(P, month_end_sweep(u, goal_id, sweep_amount))
    \/ \E u \in P.users, prior_month \in MonthKeys :
          Step(P, month_end_start_new_month(u, prior_month))

\* The ledger within one month: two callers, their categories and transactions.
LedgerInputs ==
    [users |-> Users, incomes |-> {3}, balances |-> {1},
     setups |-> {<<"Manual", <<>> >>}, categories |-> {Holiday},
     planned |-> {2}, types |-> {}, amounts |-> {-1, 2},
     dates |-> {StartKey}, redates |-> {},
     maxcats |-> MaxCats, maxtxns |-> MaxTxns, maxgoals |-> 0, maxlists |-> 0,
     goalids |-> {1}, sweeps |-> {1}]

Next ==
    \/ BudgetRequests(LedgerInputs)
    \/ CategoryRequests(LedgerInputs)
    \/ TransactionRequests(LedgerInputs)
    \/ TransactionUpdates(LedgerInputs)

\* The ledger across the month close.
MonthEndInputs ==
    [users |-> Users, incomes |-> {3}, balances |-> {1},
     setups |-> {<<"Manual", <<>> >>, <<"Manual", <<Holiday>> >>, <<"Manual", <<Treat>> >>},
     categories |-> {Holiday},
     planned |-> {2}, types |-> {}, amounts |-> {2},
     dates |-> {StartKey}, redates |-> {},
     maxcats |-> MaxCarried, maxtxns |-> MaxEntries, maxgoals |-> 0, maxlists |-> 0,
     goalids |-> {1}, sweeps |-> {1}]

NextMonthEnd ==
    \/ BudgetRequests(MonthEndInputs)
    \/ TransactionRequests(MonthEndInputs)
    \/ MonthEnd(MonthEndInputs)

SpecMonthEnd == Init /\ [][NextMonthEnd]_vars

\* The close ritual alone, with its history.
WizardInputs ==
    [users |-> Users, incomes |-> {3}, balances |-> {1},
     setups |-> {<<"Manual", <<>> >>}, categories |-> {}, planned |-> {}, types |-> {},
     amounts |-> {}, dates |-> {}, redates |-> {},
     maxcats |-> MaxCarried + MaxCarried, maxtxns |-> 0, maxgoals |-> 0, maxlists |-> 0,
     goalids |-> {1}, sweeps |-> {1}]

NextWizard ==
    \/ \E u \in Users, income \in WizardInputs.incomes, balance \in WizardInputs.balances,
          in \in WizardInputs.setups :
          Step(WizardInputs, initial_budget_setup(u, income, balance, in[1], in[2]))
    \/ Step(WizardInputs, Tick)
    \/ \E u \in Users : Summarize(u) /\ Within(WizardInputs)'
    \/ \E u \in Users, goal_id \in Optional(WizardInputs.goalids),
          sweep_amount \in WizardInputs.sweeps :
          Sweep(u, goal_id, sweep_amount) /\ Within(WizardInputs)'
    \/ \E u \in Users, prior_month \in MonthKeys :
          Finalize(u, prior_month) /\ Within(WizardInputs)'

SpecWizard == Init /\ [][NextWizard]_vars

GoalRequests(P) ==
    \/ \E u \in P.users : Step(P, create_goal(u))
    \/ \E u \in P.users, goal_id \in P.goalids, amount \in P.sweeps :
          Step(P, contribute_to_goal(u, goal_id, amount))

\* Goals, contributions and the sweep of the close.
GoalInputs ==
    [users |-> Users, incomes |-> {3}, balances |-> {1},
     setups |-> {<<"Manual", <<>> >>}, categories |-> {}, planned |-> {}, types |-> {},
     amounts |-> {}, dates |-> {}, redates |-> {},
     maxcats |-> MaxCats, maxtxns |-> 0, maxgoals |-> MaxGoals, maxlists |-> 0,
     goalids |-> 1..MaxGoals, sweeps |-> {1, 2}]

NextGoals ==
    \/ \E u \in Users, income \in GoalInputs.incomes, balance \in GoalInputs.balances,
          in \in GoalInputs.setups :
          Step(GoalInputs, initial_budget_setup(u, income, balance, in[1], in[2]))
    \/ GoalRequests(GoalInputs)
    \/ Step(GoalInputs, Tick)
    \/ \E u \in Users, goal_id \in Optional(GoalInputs.goalids),
          sweep_amount \in GoalInputs.sweeps :
          Step(GoalInputs, month_end_sweep(u, goal_id, sweep_amount))

SpecGoals == Init /\ [][NextGoals]_vars

ShoppingRequests(P) ==
    \/ \E u \in P.users, cid \in 1..P.maxcats, total_cost \in P.amounts :
          Step(P, create_shopping_list(u, cid, total_cost))
    \/ \E u \in P.users, lid \in 1..P.maxlists, actual_total_cost \in Optional(P.actuals),
          transaction_date \in Optional(P.dates) :
          Step(P, checkout_shopping_list(u, lid, actual_total_cost, transaction_date))

\* Transactions dated in either month, created directly or by a checkout, and
\* the deletion of categories.
ShopInputs ==
    [users |-> Users, incomes |-> {3}, balances |-> {1},
     setups |-> {<<"Manual", <<>> >>}, categories |-> {}, planned |-> {}, types |-> {},
     amounts |-> {2}, actuals |-> {}, dates |-> MonthKeys, redates |-> MonthKeys,
     maxcats |-> MaxCats, maxtxns |-> MaxEntries, maxgoals |-> 0, maxlists |-> MaxLists,
     goalids |-> {1}, sweeps |-> {1}]

NextShop ==
    \/ \E u \in Users, income \in ShopInputs.incomes, balance \in ShopInputs.balances,
          in \in ShopInputs.setups :
          Step(ShopInputs, initial_budget_setup(u, income, balance, in[1], in[2]))
    \/ Step(ShopInputs, Tick)
    \/ \E u \in Users, cid \in 1..ShopInputs.maxcats : Step(ShopInputs, delete_category(u, cid))
    \/ Step(ShopInputs, delete_category_recalc)
    \/ TransactionRequests(ShopInputs)
    \/ \E u \in Users, tid \in 1..ShopInputs.maxtxns, date \in ShopInputs.redates :
          Step(ShopInputs, update_transaction(u, tid, Unset, Unset, Given(date)))
    \/ Step(ShopInputs, update_transaction_recalc_new)
    \/ ShoppingRequests(ShopInputs)

SpecShop == Init /\ [][NextShop]_vars

\* The plan of one month: budgets whose income is revised while categories
\* are created, replanned and deleted.
PlanInputs ==
    [users |-> Users, incomes |-> {3, 4}, balances |-> {1},
     setups |-> {<<"Manual", <<>> >>}, categories |-> {Holiday},
     planned |-> {2}, types |-> {}, amounts |-> {}, dates |-> {}, redates |-> {},
     maxcats |-> MaxCarried, maxtxns |-> 0, maxgoals |-> 0, maxlists |-> 0,
     goalids |-> {1}, sweeps |-> {1}]

NextPlan ==
    \/ BudgetRequests(PlanInputs)
    \/ CategoryRequests(PlanInputs)

SpecPlan == Init /\ [][NextPlan]_vars

\* Setup by either allocation method, over incomes whose shares are whole.
AllocInputs ==
    [users |-> Users, incomes |-> {20, 1000}, balances |-> {1},
     setups |-> {<<"50/30/20", <<>> >>, <<"Manual", <<>> >>},
     categories |-> {}, planned |-> {}, types |-> {}, amounts |-> {}, dates |-> {},
     redates |-> {},
     maxcats |-> MaxAllocated, maxtxns |-> 0, maxgoals |-> 0, maxlists |-> 0,
     goalids |-> {1}, sweeps |-> {1}]

NextAlloc ==
    \/ BudgetRequests(AllocInputs)
    \/ Step(AllocInputs, Tick)

SpecAlloc == Init /\ [][NextAlloc]_vars

\* Two users who name each other's categories, transactions and goals.
IsolationInputs ==
    [users |-> Users, incomes |-> {3}, balances |-> {1},
     setups |-> {<<"Manual", <<Holiday, Treat>> >>}, categories |-> {},
     planned |-> {}, types |-> {}, amounts |-> {2}, dates |-> {StartKey}, redates |-> {},
     maxcats |-> MaxCarried + 1, maxtxns |-> MaxEntries, maxgoals |-> MaxEntries,
     maxlists |-> 0,
     goalids |-> 1..MaxEntries, sweeps |-> {MaxSaved}]

NextIsolation ==
    \/ \E u \in Users, income \in IsolationInputs.incomes,
          balance \in IsolationInputs.balances, in \in IsolationInputs.setups :
          Step(IsolationInputs, initial_budget_setup(u, income, balance, in[1], in[2]))
    \/ \E u \in Users, cid \in 1..IsolationInputs.maxcats :
          Step(IsolationInputs, delete_category(u, cid))
    \/ Step(IsolationInputs, delete_category_recalc)
    \/ TransactionRequests(IsolationInputs)
    \/ TransactionUpdates(IsolationInputs)
    \/ GoalRequests(IsolationInputs)
    \/ \E u \in Users, goal_id \in IsolationInputs.goalids :
          Step(IsolationInputs, delete_goal(u, goal_id))

SpecIsolation == Init /\ [][NextIsolation]_vars

\* What is free to spend: contributions, the balance a close carries over,
\* and the budget and category requests that recalculate free_to_spend.
FundsInputs ==
    [users |-> Users, incomes |-> {3}, balances |-> {1},
     setups |-> {<<"Manual", <<>> >>}, categories |-> {Sundry},
     planned |-> {}, types |-> {}, amounts |-> {}, dates |-> {}, redates |-> {},
     maxcats |-> MaxCarried, maxtxns |-> 0, maxgoals |-> MaxEntries, maxlists |-> 0,
     goalids |-> 1..MaxEntries, sweeps |-> {MaxSaved}]

NextFunds ==
    \/ BudgetRequests(FundsInputs)
    \/ \E u \in Users, spec \in FundsInputs.categories :
          Step(FundsInputs, create_category(u, spec))
    \/ GoalRequests(FundsInputs)
    \/ Step(FundsInputs, Tick)
    \/ \E u \in Users, prior_month \in MonthKeys :
          Step(FundsInputs, month_end_start_new_month(u, prior_month))

SpecFunds == Init /\ [][NextFunds]_vars

\* Transactions dated in either month while months are closed: after the
\* close a caller has categories of two months.
CalendarInputs ==
    [users |-> Users, incomes |-> {3}, balances |-> {1},
     setups |-> {<<"Manual", <<Holiday>> >>}, categories |-> {}, planned |-> {}, types |-> {},
     amounts |-> {2}, dates |-> MonthKeys, redates |-> {},
     maxcats |-> MaxCarried + 1, maxtxns |-> MaxEntries, maxgoals |-> 0, maxlists |-> 0,
     goalids |-> {1}, sweeps |-> {1}]

NextCalendar ==
    \/ \E u \in Users, income \in CalendarInputs.incomes, balance \in CalendarInputs.balances,
          in \in CalendarInputs.setups :
          Step(CalendarInputs, initial_budget_setup(u, income, balance, in[1], in[2]))
    \/ \E u \in Users, prior_month \in MonthKeys :
          Step(CalendarInputs, month_end_start_new_month(u, prior_month))
    \/ TransactionRequests(CalendarInputs)
    \/ TransactionUpdates(CalendarInputs)

SpecCalendar == Init /\ [][NextCalendar]_vars

\* Transactions recorded by requests that run side by side.
RaceInputs ==
    [users |-> Users, incomes |-> {3}, balances |-> {1},
     setups |-> {<<"Manual", <<Holiday, Treat>> >>}, categories |-> {}, planned |-> {},
     types |-> {}, amounts |-> {1, 2}, dates |-> {StartKey}, redates |-> {},
     maxcats |-> MaxCarried + 1, maxtxns |-> MaxTxns, maxgoals |-> 0, maxlists |-> 0,
     goalids |-> {1}, sweeps |-> {1}]

NextRace ==
    \/ \E u \in Users, income \in RaceInputs.incomes, balance \in RaceInputs.balances,
          in \in RaceInputs.setups :
          Step(RaceInputs, initial_budget_setup(u, income, balance, in[1], in[2]))
    \/ \E s \in Sessions, u \in Users, cid \in 1..RaceInputs.maxcats,
          amount \in RaceInputs.amounts, date \in RaceInputs.dates :
          Beside(RaceInputs, create_transaction_flush(s, u, cid, amount, date))
    \/ \E s \in Sessions : Beside(RaceInputs, update_category_actual_sum(s))
    \/ \E s \in Sessions : Beside(RaceInputs, update_category_actual_write(s))
    \/ \E s \in Sessions : Beside(RaceInputs, update_category_actual_totals(s))
    \/ \E s \in Sessions : Beside(RaceInputs, update_category_actual_commit(s))

SpecRace == Init /\ [][NextRace]_vars

\* Setups sent side by side, by the same user or by different ones.
SetupInputs ==
    [users |-> Users, incomes |-> {3}, balances |-> {1},
     setups |-> {<<"Manual", <<>> >>, <<"Manual", <<Holiday>> >>, <<"Manual", <<Holiday, Treat>> >>},
     categories |-> {}, planned |-> {}, types |-> {}, amounts |-> {}, dates |-> {},
     redates |-> {}, maxcats |-> MaxCarried + 1, maxtxns |-> 0, maxgoals |-> 0,
     maxlists |-> 0, goalids |-> {1}, sweeps |-> {1}]

NextSetup ==
    \/ \E s \in Sessions, u \in Users, income \in SetupInputs.incomes,
          balance \in SetupInputs.balances, in \in SetupInputs.setups :
          Beside(SetupInputs, initial_budget_setup_check(s, u, income, balance, in[1], in[2]))
    \/ \E s \in Sessions : Beside(SetupInputs, initial_budget_setup_flush(s))
    \/ \E s \in Sessions : Beside(SetupInputs, initial_budget_setup_commit(s))

SpecSetup == Init /\ [][NextSetup]_vars

\* Contributions sent side by side.
ContributeInputs ==
    [users |-> Users, incomes |-> {3}, balances |-> {1},
     setups |-> {<<"Manual", <<>> >>}, categories |-> {}, planned |-> {}, types |-> {},
     amounts |-> {}, dates |-> {}, redates |-> {},
     maxcats |-> MaxCats, maxtxns |-> 0, maxgoals |-> MaxEntries, maxlists |-> 0,
     goalids |-> 1..MaxEntries, sweeps |-> {1, 2}]

NextContribute ==
    \/ \E u \in Users, income \in ContributeInputs.incomes,
          balance \in ContributeInputs.balances, in \in ContributeInputs.setups :
          Step(ContributeInputs, initial_budget_setup(u, income, balance, in[1], in[2]))
    \/ \E u \in Users : Step(ContributeInputs, create_goal(u))
    \/ \E s \in Sessions, u \in Users, goal_id \in ContributeInputs.goalids,
          amount \in ContributeInputs.sweeps :
          Beside(ContributeInputs, contribute_to_goal_load(s, u, goal_id, amount))
    \/ \E s \in Sessions : Beside(ContributeInputs, contribute_to_goal_budget(s))
    \/ \E s \in Sessions : Beside(ContributeInputs, contribute_to_goal_commit(s))

SpecContribute == Init /\ [][NextContribute]_vars

Spec == Init /\ [][Next]_vars

\* ---------------------------------------------------------------- properties
\* A handler returns in this step: the step is no Tick, and it neither opens a
\* request that has commits left nor moves one on to its next commit.
Returned == now' = now /\ (inflight' = inflight \/ inflight' = NoRequest)

\* This step returns a success of one of the handlers ops.
Succeeded(ops) == Returned /\ resp'.op \in ops /\ resp'.status < 400

TransactionOps == {"create_transaction", "update_transaction", "delete_transaction"}

\* sum of amount over the transactions of T whose category_id is cid
LedgerSum(T, cid) == SumAmount({t \in T : t.category_id = cid})

\* C1: when create, update or delete of a transaction has returned with
\* success, every category the request touched (the transaction's category and,
\* on update, its previous one) stores as actual the sum of amount over the
\* stored transactions of that category.
C1_ActualIsLedgerSum ==
    [][Succeeded(TransactionOps) =>
          \A c \in categories' :
              c.id \in {resp'.a, resp'.b} => c.actual = LedgerSum(transactions', c.id)]_vars

\* A delete has returned and left its category with a non-zero sum.
C1_Witness ==
    /\ inflight = NoRequest
    /\ resp.op = "delete_transaction"
    /\ resp.status = 204
    /\ \E c \in categories :
          /\ c.id = resp.a
          /\ c.actual # 0
          /\ c.actual = LedgerSum(transactions, c.id)

\* The budget of (u, m) shows the plan and the ledger of its categories.
TotalsOf(C, T, u, m) ==
    LET planned == SumPlanned(CatsOf(C, u, m))
        actual == SumSpending(CatsOf(C, u, m), T)
    IN [planned |-> planned, actual |-> actual, difference |-> planned - actual]

\* C2: no commit makes a transaction create/update/delete or a category
\* update/delete visible without its recalculation: a commit that changes the
\* transaction sum of a category stores that sum as the category's actual and
\* brings the totals of the category's budget up to date, and a commit that
\* changes the planned sum of a budget's categories brings the budget's totals
\* and free_to_spend up to date.
C2_RecalculatedInSameCommit ==
    [][/\ \A c \in categories' :
             LedgerSum(transactions', c.id) # LedgerSum(transactions, c.id) =>
                /\ c.actual = LedgerSum(transactions', c.id)
                /\ \A b \in BudgetsOf(budgets', c.user_id, c.budget_month) :
                      b.totals = TotalsOf(categories', transactions', c.user_id, c.budget_month)
       /\ \A b \in budgets' :
             SumPlanned(CatsOf(categories', b.user_id, b.month))
                # SumPlanned(CatsOf(categories, b.user_id, b.month)) =>
                /\ b.totals = TotalsOf(categories', transactions', b.user_id, b.month)
                /\ b.free_to_spend
                      = b.income - SumPlanned(CatsOf(categories', b.user_id, b.month))]_vars

\* The (user, month) keys of the budgets the request answered by r recalculated.
RecalculatedKeys(C, r) ==
    IF r.op \in TransactionOps
    THEN {<<c.user_id, c.budget_month>> : c \in {x \in C : x.id \in {r.a, r.b}}}
    ELSE IF r.month = NoMonth THEN {} ELSE {<<r.user, r.month>>}

RecalculatingOps ==
    TransactionOps \cup
    {"setup", "update_budget", "create_category", "update_category", "delete_category"}

\* C3: right after an operation that recalculates budget B (setup,
\* update_budget, create / update-planned / delete of a category of B's month,
\* create / update / delete of a transaction in a category of B's month), B's
\* totals are planned = sum of planned over the categories of B's (user, month),
\* actual = sum of their transaction sums, difference = planned - actual.
C3_TotalsAfterRecalculation ==
    [][Succeeded(RecalculatingOps) =>
          \A k \in RecalculatedKeys(categories', resp') :
              \A b \in BudgetsOf(budgets', k[1], k[2]) :
                  b.totals = TotalsOf(categories', transactions', k[1], k[2])]_vars

\* A category delete has returned for a budget with a plan and a ledger.
C3_Witness ==
    /\ inflight = NoRequest
    /\ resp.op = "delete_category"
    /\ resp.status = 204
    /\ \E b \in BudgetsOf(budgets, resp.user, resp.month) :
          /\ b.totals.planned > 0
          /\ b.totals.actual # 0
          /\ b.totals = TotalsOf(categories, transactions, resp.user, resp.month)

\* C4: when update moves a transaction from category A to another category B
\* of the caller, the commit of the update takes the transaction's amount out
\* of A's transaction sum and adds the amount it has now to B's, and when the
\* update returns both A.actual and B.actual are the sums of their transactions:
\* the old category is recalculated as well as the new one.
C4_MoveRecalculatesBoth ==
    [][/\ (/\ inflight = NoRequest
           /\ inflight'.op = "update_transaction"
           /\ inflight'.a # inflight'.b) =>
             \E t \in transactions, moved \in transactions' :
                 /\ moved.id = t.id
                 /\ t.category_id = inflight'.b
                 /\ moved.category_id = inflight'.a
                 /\ LedgerSum(transactions', inflight'.b)
                       = LedgerSum(transactions, inflight'.b) - t.amount
                 /\ LedgerSum(transactions', inflight'.a)
                       = LedgerSum(transactions, inflight'.a) + moved.amount
       /\ (Succeeded({"update_transaction"}) /\ resp'.a # resp'.b) =>
             /\ \E A \in categories' : A.id = resp'.b
             /\ \E B \in categories' : B.id = resp'.a
             /\ \A c \in categories' :
                   c.id \in {resp'.a, resp'.b} => c.actual = LedgerSum(transactions', c.id)]_vars

\* A move has returned: A has no transaction left and actual 0, B holds one.
C4_Witness ==
    /\ inflight = NoRequest
    /\ resp.op = "update_transaction"
    /\ resp.status = 200
    /\ resp.a # resp.b
    /\ \E A \in categories, B \in categories :
          /\ A.id = resp.b
          /\ B.id = resp.a
          /\ A.user_id = B.user_id
          /\ \A t \in transactions : t.category_id # A.id
          /\ A.actual = 0
          /\ \E t \in transactions : t.category_id = B.id
          /\ B.actual # 0

\* C5: after any sequence of setup and Finalize requests, of any users and for
\* any months, a Finalize repeated for the same prior month included, there is
\* at most one Budget per (user_id, month).
C5_OneBudgetPerUserMonth ==
    \A b1 \in budgets, b2 \in budgets :
        (b1.user_id = b2.user_id /\ b1.month = b2.month) => b1 = b2

\* A Finalize was repeated for a month its user had closed, and was refused.
C5_Witness ==
    /\ resp = Failure("finalize", 500)
    /\ \E r \in reports :
          /\ HasBudget(budgets, r.user_id, r.month)
          /\ HasBudget(budgets, r.user_id, NextMonthKey(r.month))
          /\ \A o \in reports : o.month = r.month => o = r
          /\ \A u \in Users : u # r.user_id => ~users[u]

\* C6: setup answers Conflict whenever the caller's is_setup_complete is true
\* or the caller has a Budget for the current month, in a later month too; a
\* refused setup leaves budgets, categories and is_setup_complete as they were;
\* is_setup_complete never goes back to false and goes to true only in the
\* caller's successful setup.
C6_SetupOneShot ==
    [][/\ \A u \in Users : users[u] => users'[u]
       /\ \A u \in Users : (users'[u] /\ ~users[u]) =>
             (resp'.op = "setup" /\ resp'.status = 201 /\ resp'.user = u)
       /\ \A u \in Users, income \in MonthEndInputs.incomes,
             balance \in MonthEndInputs.balances, in \in MonthEndInputs.setups :
             (/\ resp'.op = "setup"
              /\ (users[u] \/ BudgetsOf(budgets, u, now) # {})
              /\ initial_budget_setup(u, income, balance, in[1], in[2])) =>
                /\ resp'.op = "setup"
                /\ resp'.status = 409
                /\ UNCHANGED <<users, budgets, categories>>]_vars

\* A setup was refused in a later month, in which nobody has a budget.
C6_Witness ==
    /\ resp.op = "setup"
    /\ resp.status = 409
    /\ resp.month = now
    /\ now # StartKey
    /\ \E u \in Users : users[u]
    /\ \A u \in Users : ~HasBudget(budgets, u, now)

\* prior_month + 1 month, December rolling to January of the next year
MonthAfter(m) == IF m[2] = 12 THEN <<m[1] + 1, 1>> ELSE <<m[1], m[2] + 1>>

\* The rows of categories' that categories does not hold.
CreatedCategories == {c \in categories' : \A o \in categories : o.id # c.id}

\* c is the copy of prior category p in month m.
CarriedFrom(c, p, m) ==
    /\ c.user_id = p.user_id
    /\ c.budget_month = m
    /\ c.name = p.name
    /\ c.type = p.type
    /\ c.planned = p.planned
    /\ c.icon = p.icon
    /\ c.color = p.color
    /\ c.actual = 0

\* C7: Finalize(prior_month) of a user who has a Budget for prior_month
\* creates in one commit a MonthlyReport for prior_month, a Budget for
\* prior_month + 1 month with starting_balance = prior.starting_balance +
\* prior.free_to_spend, free_to_spend the same amount and zeroed totals, and one
\* new category per prior category with its name, type, planned, icon and
\* color and actual 0.
C7_FinalizeCarriesOver ==
    [][\A u \in Users, m \in MonthKeys :
          (/\ resp'.op = "finalize"
           /\ BudgetsOf(budgets, u, m) # {}
           /\ month_end_start_new_month(u, m)) =>
             LET prior == FirstBudget(budgets, u, m)
                 carried == prior.starting_balance + prior.free_to_spend
                 priorCats == CatsOf(categories, u, m)
             IN /\ \E r \in reports' : reports' \ reports = {r} /\ r.user_id = u /\ r.month = m
                /\ \E nb \in budgets' :
                      /\ budgets' \ budgets = {nb}
                      /\ nb.user_id = u
                      /\ nb.month = MonthAfter(m)
                      /\ nb.starting_balance = carried
                      /\ nb.free_to_spend = carried
                      /\ nb.totals = [planned |-> 0, actual |-> 0, difference |-> 0]
                /\ Cardinality(CreatedCategories) = Cardinality(priorCats)
                /\ \A p \in priorCats : \E c \in CreatedCategories : CarriedFrom(c, p, MonthAfter(m))
                /\ \A c \in CreatedCategories : \E p \in priorCats : CarriedFrom(c, p, MonthAfter(m))]_vars

\* C8: the MonthlyReport a Finalize creates for prior_month has total_income =
\* the prior budget's income, total_expenses = the sum of the transaction sums
\* of the month's Need and Want categories, total_saved = the sum of the
\* transaction sums of its Savings categories and net_surplus = total_income -
\* total_expenses - total_saved, whatever the cached actual held before.
C8_ReportFromLedger ==
    [][\A u \in Users, m \in MonthKeys :
          (/\ resp'.op = "finalize"
           /\ resp'.status = 200
           /\ month_end_start_new_month(u, m)) =>
             \E r \in reports' :
                 /\ reports' \ reports = {r}
                 /\ r.user_id = u
                 /\ r.month = m
                 /\ r.total_income = FirstBudget(budgets, u, m).income
                 /\ r.total_expenses =
                       SumSpending({c \in CatsOf(categories, u, m) : c.type \in {"Need", "Want"}},
                                   transactions)
                 /\ r.total_saved =
                       SumSpending({c \in CatsOf(categories, u, m) : c.type = "Savings"},
                                   transactions)
                 /\ r.net_surplus = r.total_income - r.total_expenses - r.total_saved]_vars

\* A Finalize ran between the two commits of a delete_transaction, while the
\* category's cached actual still counted the deleted transaction, and its
\* report counts nothing.
C8_Witness ==
    /\ inflight.op = "delete_transaction"
    /\ resp.op = "finalize"
    /\ resp.status = 200
    /\ \E r \in reports, c \in categories :
          /\ r.user_id = resp.user
          /\ r.month = resp.month
          /\ c.id = inflight.a
          /\ c.user_id = r.user_id
          /\ c.budget_month = r.month
          /\ LedgerSum(transactions, c.id) = 0
          /\ r.total_expenses + r.total_saved = 0

\* C9: there is at most one MonthlyReport per (user, month), and no step
\* removes a MonthlyReport or changes a field of one.
C9_ReportOnceAndImmutable ==
    [][/\ \A r \in reports : r \in reports'
       /\ \A r1 \in reports', r2 \in reports' :
             (r1.user_id = r2.user_id /\ r1.month = r2.month) => r1 = r2]_vars

\* A user has closed two months in a row and changed the budget afterwards.
C9_Witness ==
    /\ resp.op = "update_budget"
    /\ resp.status = 200
    /\ \E r1 \in reports, r2 \in reports :
          /\ r1.user_id = resp.user
          /\ r2.user_id = resp.user
          /\ r2.month = NextMonthKey(r1.month)

RECURSIVE SumSaved(_)
\* sum of saved_amount over the goals G
SumSaved(G) ==
    IF G = {} THEN 0
    ELSE LET g == CHOOSE x \in G : TRUE IN g.saved_amount + SumSaved(G \ {g})

GoalsOf(G, u) == {g \in G : g.user_id = u}

\* C11: a contribution of any amount > 0 by the owner of the goal, who has a
\* Budget for the current month, succeeds, and its one commit adds the amount
\* to the goal's saved_amount and takes it from the budget's free_to_spend
\* (which may become negative); and no step of any handler changes, for a
\* caller's current budget, the sum of the caller's saved amounts and the
\* budget's free_to_spend, so no state stores one of the two writes alone.
C11_ContributionMovesFunds ==
    [][/\ \A u \in Users, goal \in goals, amount \in GoalInputs.sweeps :
            (/\ resp'.op = "contribute"
             /\ goal.user_id = u
             /\ HasBudget(budgets, u, now)
             /\ contribute_to_goal(u, goal.id, amount))
            => LET budget == FirstBudget(budgets, u, now)
               IN /\ resp'.status = 200
                  /\ goals' = (goals \ {goal}) \cup
                        {[goal EXCEPT !.saved_amount = goal.saved_amount + amount]}
                  /\ budgets' = (budgets \ {budget}) \cup
                        {[budget EXCEPT !.free_to_spend = budget.free_to_spend - amount]}
       /\ \A u \in Users :
            (now' = now /\ HasBudget(budgets, u, now))
            => /\ HasBudget(budgets', u, now)
               /\ SumSaved(GoalsOf(goals', u)) + FirstBudget(budgets', u, now).free_to_spend
                    = SumSaved(GoalsOf(goals, u)) + FirstBudget(budgets, u, now).free_to_spend
      ]_vars

\* A contribution larger than what was free to spend has been committed.
C11_Witness ==
    /\ resp.op = "contribute" /\ resp.status = 200
    /\ \E b \in budgets : b.user_id = resp.user /\ b.month = now /\ b.free_to_spend < 0
    /\ \E g \in goals : g.id = resp.a /\ g.saved_amount > 0
C13_DeleteCategoryGuard ==
    [][/\ \A u \in Users, c \in categories :
            (c.user_id = u /\ delete_category(u, c.id))
            => IF LedgerSum(transactions, c.id) > 0
               THEN /\ resp' = Failure("delete_category", 400)
                    /\ categories' = categories
                    /\ budgets' = budgets
               ELSE (\A t \in transactions : t.category_id # c.id)
                    => /\ categories' = categories \ {c}
                       /\ inflight'.op = "delete_category"
       /\ Succeeded({"delete_category"})
          => /\ \A c \in categories' : c.id # resp'.a
             /\ \A b \in budgets' :
                  (b.user_id = resp'.user /\ b.month = resp'.month)
                  => /\ b.free_to_spend
                          = b.income - SumPlanned(CatsOf(categories', b.user_id, b.month))
                     /\ b.totals = TotalsOf(categories', transactions', b.user_id, b.month)
      ]_vars
\* C14: create of a transaction fails with NotFound (404) when category_id
\* names no category of the caller, and with BadRequest (400) when the caller
\* has no Budget for the month of the transaction's date; either failure
\* stores no transaction and changes no category and no budget.
C14_CreateRefused ==
    [][\A u \in Users, cid \in 1..ShopInputs.maxcats, amount \in ShopInputs.amounts,
         date \in ShopInputs.dates :
          (/\ resp'.op = "create_transaction"
           /\ create_transaction(u, cid, amount, date))
          => /\ (\A c \in categories : ~(c.id = cid /\ c.user_id = u))
                  => resp'.status = 404
             /\ ((\E c \in categories : c.id = cid /\ c.user_id = u)
                  /\ ~HasBudget(budgets, u, date))
                  => resp'.status = 400
             /\ resp'.status \in {400, 404}
                  => /\ transactions' = transactions
                     /\ categories' = categories
                     /\ budgets' = budgets
                     /\ nextId' = nextId]_vars

\* A create dated in a month without budget was refused while the ledger
\* holds a transaction of the month before.
C14_Witness ==
    /\ resp = Failure("create_transaction", 400)
    /\ transactions # {}
    /\ \E u \in Users : HasBudget(budgets, u, StartKey) /\ ~HasBudget(budgets, u, NextMonthKey(StartKey))
\* C15: in every reachable state the user of each stored transaction has a
\* Budget for the transaction's budget_month, whether the transaction was
\* created by TransactionLedger.create or by the checkout of a shopping list.
C15_TransactionsHaveBudget ==
    \A t \in transactions : HasBudget(budgets, t.user_id, t.budget_month)
\* C16: every stored transaction's budget_month is the month of its date,
\* after create and after any update, an update that moves the date to
\* another month included.
C16_BudgetMonthOfDate ==
    \A t \in transactions : t.budget_month = t.date
PlanOps == {"setup", "update_budget", "create_category", "update_category", "delete_category"}

\* C17: when setup, update_budget, create_category, an update_category that
\* changes planned, or delete_category has returned with success, the budget
\* it recalculated stores as free_to_spend its income minus the sum of planned
\* over the categories now stored for its user and month.
C17_FreeToSpendIsIncomeLessPlanned ==
    [][Succeeded(PlanOps) =>
          \A b \in budgets' :
              (b.user_id = resp'.user /\ b.month = resp'.month)
              => b.free_to_spend
                   = b.income - SumPlanned(CatsOf(categories', b.user_id, b.month))]_vars
\* name, type and planned of the categories C
Allocation(C) == {<<c.name, c.type, c.planned>> : c \in C}

C19_SweepFrame ==
    [][\A u \in Users, goal_id \in Optional(GoalInputs.goalids),
         sweep_amount \in GoalInputs.sweeps :
          (/\ resp'.op = "sweep"
           /\ month_end_sweep(u, goal_id, sweep_amount))
          => /\ <<budgets', categories', transactions', reports', users'>>
                  = <<budgets, categories, transactions, reports, users>>
             /\ goal_id = Unset => goals' = goals
             /\ \A goal \in goals :
                  (/\ goal_id = Given(goal.id)
                   /\ goal.user_id = u
                   /\ HasBudget(budgets, u, now))
                  => goals' = (goals \ {goal}) \cup
                        {[goal EXCEPT !.saved_amount = goal.saved_amount + sweep_amount]}]_vars
\* sum of amount over the transactions of T recorded against the categories C
LedgerTotal(C, T) == SumAmount({t \in T : \E c \in C : c.id = t.category_id})

\* C20: a summary commits nothing: budgets with their totals and
\* free_to_spend, categories with their actual, transactions, goals and
\* reports are after it what they were before; and the total_actual and
\* total_expenses it returns are sums over the stored transactions of the
\* caller's categories of the month, whatever the cached actual says.
C20_SummaryReadOnly ==
    [][\A u \in Users :
          (resp'.op = "summary" /\ month_end_summary(u))
          => /\ <<budgets', categories', transactions', goals', reports', users', lists'>>
                  = <<budgets, categories, transactions, goals, reports, users, lists>>
             /\ resp'.status = 200
                  => LET cats == CatsOf(categories, u, now)
                     IN /\ resp'.a = LedgerTotal(cats, transactions)
                        /\ resp'.b = LedgerTotal({c \in cats : c.type # "Savings"},
                                                  transactions)]_vars

\* A summary has returned totals that differ from the cached actual of the
\* stored categories.
C20_Witness ==
    /\ resp.op = "summary" /\ resp.status = 200
    /\ resp.month = now
    /\ resp.a # SumActual(CatsOf(categories, resp.user, now))
\* C21: Finalize by a caller who has no Budget for prior_month fails with
\* NotFound (404) and creates no MonthlyReport, no Budget and no Category.
C21_FinalizeWithoutBudget ==
    [][\A u \in Users, prior_month \in MonthKeys :
          (/\ resp'.op = "finalize"
           /\ ~HasBudget(budgets, u, prior_month)
           /\ month_end_start_new_month(u, prior_month))
          => /\ resp' = Failure("finalize", 404)
             /\ reports' = reports
             /\ budgets' = budgets
             /\ categories' = categories]_vars

\* A Finalize was refused with NotFound while the other user has closed a
\* month.
C21_Witness ==
    /\ resp = Failure("finalize", 404)
    /\ reports # {}
    /\ \E u \in Users, m \in MonthKeys : ~HasBudget(budgets, u, m)
\* The rows of S that do not belong to u.
OthersOf(S, u) == {x \in S : x.user_id # u}

\* No row of S with this id belongs to u: there is none, or it is another user's.
NotOwned(S, id, u) == \A x \in S : x.id = id => x.user_id # u

\* A row of S with this id belongs to a user other than u.
OwnedByOther(S, id, u) == \E x \in S : x.id = id /\ x.user_id # u

StoreUnchanged ==
    <<users', budgets', categories', transactions', goals', lists', reports'>>
        = <<users, budgets, categories, transactions, goals, lists, reports>>

\* This step is a commit of a request of the caller u.
IssuedBy(u) ==
    \/ \E income \in IsolationInputs.incomes, balance \in IsolationInputs.balances,
          in \in IsolationInputs.setups :
          initial_budget_setup(u, income, balance, in[1], in[2])
    \/ \E cid \in 1..IsolationInputs.maxcats : delete_category(u, cid)
    \/ \E cid \in 1..IsolationInputs.maxcats, amount \in IsolationInputs.amounts,
          date \in IsolationInputs.dates : create_transaction(u, cid, amount, date)
    \/ \E tid \in 1..IsolationInputs.maxtxns, amount \in Optional(IsolationInputs.amounts),
          cid \in Optional(1..IsolationInputs.maxcats) :
          update_transaction(u, tid, amount, cid, Unset)
    \/ \E tid \in 1..IsolationInputs.maxtxns : delete_transaction(u, tid)
    \/ /\ inflight.user = u
       /\ \/ delete_category_recalc
          \/ update_transaction_recalc_new
          \/ update_transaction_recalc_old
          \/ delete_transaction_recalc
    \/ create_goal(u)
    \/ \E goal_id \in IsolationInputs.goalids, amount \in IsolationInputs.sweeps :
          contribute_to_goal(u, goal_id, amount)
    \/ \E goal_id \in IsolationInputs.goalids : delete_goal(u, goal_id)

C23_FinalizeIndependentOfOthers ==
    [][\A u \in Users, m \in MonthKeys :
          (/\ resp'.op = "finalize"
           /\ HasBudget(budgets, u, m)
           /\ \A r \in reports : r.user_id = u => r.month # m
           /\ month_end_start_new_month(u, m))
          => /\ resp'.status = 200
             /\ \E r \in reports' \ reports : r.user_id = u /\ r.month = m
             /\ \E b \in budgets' \ budgets : b.user_id = u /\ b.month = MonthAfter(m)]_vars
\* C24: an update_budget or create_category that has returned with success
\* and left the budget's income and the sum of planned of its month as they
\* were has left its free_to_spend as it was, so that what a contribution
\* took from free_to_spend, and what a close carried into it, is still there.
C24_FreeToSpendSurvives ==
    [][Succeeded({"update_budget", "create_category"}) =>
          \A b \in budgets, nb \in budgets' :
              (/\ b.user_id = resp'.user /\ b.month = resp'.month
               /\ nb.id = b.id
               /\ nb.income = b.income
               /\ SumPlanned(CatsOf(categories', b.user_id, b.month))
                    = SumPlanned(CatsOf(categories, b.user_id, b.month)))
              => nb.free_to_spend = b.free_to_spend]_vars
\* C25: in every reachable state each stored transaction's category_id names
\* a stored category of the transaction's user: no delete_category removes a
\* category that has a transaction recorded against it, whether the amounts
\* sum to more than 0 or not.
C25_NoOrphanTransactions ==
    \A t \in transactions :
        \E c \in categories : c.id = t.category_id /\ c.user_id = t.user_id

\* A delete_category was refused for a category whose transactions sum to 0
\* or less.
C25_Witness ==
    /\ resp = Failure("delete_category", 500)
    /\ \E c \in categories :
          /\ \E t \in transactions : t.category_id = c.id
          /\ LedgerSum(transactions, c.id) <= 0
\* C26: in every reachable state each stored transaction carries the
\* budget_month of the category it is recorded against: no create or update
\* of a transaction accepts a category of a month other than the month of
\* the transaction's date.
C26_TransactionInCategoryMonth ==
    \A t \in transactions : \A c \in categories :
        c.id = t.category_id => t.budget_month = c.budget_month
\* No request is between its first statement and its commit.
Quiescent == \A s \in Sessions : sessions[s].op = "none"

\* C27: when the transaction writes that ran side by side have all finished,
\* every category stores as actual the sum of amount over its stored
\* transactions, and the budget of its month stores that sum over the month's
\* categories as totals.actual.
C27_ConcurrentWritesKeepCache ==
    Quiescent =>
        /\ \A c \in categories : c.actual = LedgerSum(transactions, c.id)
        /\ \A b \in budgets :
              b.totals.actual = SumSpending(CatsOf(categories, b.user_id, b.month), transactions)
\* C28: of the setups a user sends side by side at most one succeeds: in
\* every reachable state a user has at most one Budget for a month and no
\* initial category of that month twice.
C28_OneSetupPerUserAndMonth ==
    \A u \in Users, m \in MonthKeys :
        /\ Cardinality(BudgetsOf(budgets, u, m)) <= 1
        /\ \A c, d \in CatsOf(categories, u, m) : c.name = d.name => c.id = d.id
\* C29: each contribution that succeeds beside another one adds its amount to
\* what the goal has saved and takes it from the budget's free_to_spend as
\* they are stored when it commits, so that two of them together move the sum
\* of both amounts.
C29_ConcurrentContributionsAdd ==
    [][\A s \in Sessions :
          (/\ sessions[s].op = "contribute"
           /\ sessions'[s].op = "none"
           /\ resp'.op = "contribute"
           /\ resp'.status = 200)
          => /\ \A g \in goals : g.id = sessions[s].goal_id =>
                   \E h \in goals' : /\ h.id = g.id
                                      /\ h.saved_amount = g.saved_amount + sessions[s].amount
             /\ \A b \in budgets : b.id = sessions[s].budget_id =>
                   \E d \in budgets' : /\ d.id = b.id
                                        /\ d.free_to_spend = b.free_to_spend - sessions[s].amount]_vars
\* C30: in every reachable state the MonthlyReport of a closed month equals
\* the totals recomputed from the month's stored categories and transactions:
\* total_expenses is the transaction sum of its Need and Want categories,
\* total_saved that of its Savings categories and net_surplus what total_income
\* leaves; so no request after the close changes the ledger of the month.
C30_ClosedMonthFrozen ==
    \A r \in reports :
        LET C == CatsOf(categories, r.user_id, r.month)
            expenses == SumSpending({c \in C : c.type \in {"Need", "Want"}}, transactions)
            saved == SumSpending({c \in C : c.type = "Savings"}, transactions)
        IN /\ r.total_expenses = expenses
           /\ r.total_saved = saved
           /\ r.net_surplus = r.total_income - expenses - saved
====
